---------------------------- MODULE Spec2Model ----------------------------
(***************************************************************************)
(* Media-Tui: the playback sessions of the local-media, local-music and    *)
(* radio panes (src/src/local_media.py, local_music.py, radio_player.py)   *)
(* driven by the main loop of src/src/main.py.                             *)
(*                                                                         *)
(* Threads: 0 is the main loop; k > 0 is the k-th mpv event monitor thread *)
(* of the local-media pane (threading.Thread(target=monitor_mpv_events)).  *)
(* Player processes are numbered in launch order.  The operating system,   *)
(* the mpv processes and the user are the environment.                     *)
(*                                                                         *)
(* Scope: one run exercises one pane (the panes are separate objects that  *)
(* share no field); the other panes stay as constructed.                   *)
(***************************************************************************)
EXTENDS Integers, Sequences, FiniteSets, TLC

\* ------------------------------------------------------------- bounds
MaxLaunch == 3      \* player processes (and monitor threads) launched per run
MaxTime   == 4      \* the clock stops at this tick
MaxStart  == 2      \* of these, the first MaxStart may be started by a key press
MaxChunk  == 2      \* lines in one chunk returned by client.recv(4096)
NumTracks == 2      \* media files in directory 1

\* --------------------------------------------------- values and helpers
NoIndex == -1       \* Python None for current_media_index / current_track_index
NoProc  == 0        \* Python None for player_process / mpv_event_thread

Pids == 1..MaxLaunch
Tids == 1..MaxLaunch
Threads == 0..MaxLaunch

\* the quadrants with a pane modelled here: local music, local media, radio
Panes == {0, 1, 3}

LineKinds == {"blank", "badjson", "nonobject", "other", "idle"}
\* what one recv() can return: one to MaxChunk complete lines
Chunks == UNION {[1..n -> LineKinds] : n \in 1..MaxChunk}

\* The file system under ~/Videos: the root holds directory 1 and one media
\* file (20); directory 1 holds the media files 11 .. 10 + NumTracks.  Entries
\* below 10 are directories.
RootDir == 0
IsDir(e) == e < 10
\* get_directory_content(): directories and media files, sorted
DirContent(d) ==
    IF d = RootDir THEN <<1, 20>> ELSE [i \in 1..NumTracks |-> 10 + i]
\* Path.parent
ParentDir(d) == RootDir

\* get_media_directories(): the directories of ~/Videos
MediaDirectories == <<1>>

\* the playlist built without the is_file() test: directories are kept
FilesOfAll(s) == s

\* [f for f in file_list if f.is_file() and suffix is a media suffix]
RECURSIVE FilesOf(_)
FilesOf(s) ==
    IF s = <<>> THEN <<>>
    ELSE IF IsDir(Head(s)) THEN FilesOf(Tail(s))
    ELSE <<Head(s)>> \o FilesOf(Tail(s))

\* list.index(x), 0-based; NoIndex stands for ValueError
RECURSIVE IndexOf(_, _)
IndexOf(s, x) ==
    IF s = <<>> THEN NoIndex
    ELSE IF Head(s) = x THEN 0
    ELSE LET r == IndexOf(Tail(s), x) IN IF r = NoIndex THEN NoIndex ELSE r + 1

VARIABLES
    monocle_mode,   \* main.py: MediaDashboardApp.monocle_mode
    active_window,  \* main.py: MediaDashboardApp.active_window
    music,          \* the LocalMusicPlayer object's fields
    media,          \* the LocalMediaPlayer object's fields
    radio,          \* the RadioPlayer object's fields
    proc,           \* the mpv processes launched by the panes
    sockOwner,      \* process bound to /tmp/mpv_socket_<pid>; NoProc: no file
    thr,            \* threads: program counter and locals
    spotify,        \* the SpotifyPlayer object's navigation fields
    now,            \* time.time(), in ticks
    channels        \* radio_player.py: the content of CHANNELS_FILE

vars ==
    <<monocle_mode, active_window, music, media, radio, proc, sockOwner, thr,
      spotify, now, channels>>

\* ----------------------------------------------------------- processes
\* st: "none" (not launched), "starting" (no IPC socket yet), "running",
\* "paused" (stopped by SIGSTOP), "terming" (SIGTERM sent, not yet gone),
\* "exited" (gone, not waited for), "reaped" (gone, and poll() or wait() has
\* collected it)
ProcInit == [st |-> "none", track |-> 0]
AliveIn(P, p) == P[p].st \in {"starting", "running", "paused", "terming"}
Alive(p) == AliveIn(proc, p)
\* Popen.poll() is None
PollIsNoneIn(P, h) == h # NoProc /\ AliveIn(P, h)
PollIsNone(h) == PollIsNoneIn(proc, h)
Launched == {p \in Pids : proc[p].st # "none"}
NextPid == Cardinality(Launched) + 1
\* Popen.terminate(): a process stopped by SIGSTOP does not act on SIGTERM
\* before it is continued
Terminate(P, p) ==
    IF P[p].st \in {"starting", "running"} THEN [P EXCEPT ![p].st = "terming"]
    ELSE P
\* poll() or wait() on a process that is gone
Reap(P, p) == IF p # NoProc /\ P[p].st = "exited"
              THEN [P EXCEPT ![p].st = "reaped"] ELSE P

\* ------------------------------------------------------------- threads
\* selected_item: handle_explorer_keypress's; client: the process at the
\* other end of this monitor's connection; sigidx: the cursor when this
\* monitor detected the idle event it is handling; return_code:
\* check_playback_status's
ThreadInit == [pc |-> "none", selected_item |-> 0, client |-> NoProc,
               sigidx |-> NoIndex, return_code |-> "None"]
ExitPcs == {"exit_noconn", "exit"}
\* the pcs of a monitor inside handle_playback_end
HandlingPcs == {"sm_poll", "sm_wait", "sm_join", "hpe_check", "hpe_next"}
\* the main loop has ended: after cleanup, or by an uncaught exception; a run
\* is followed for as long as the main loop runs
MainEnded == thr[0].pc \in {"exited", "crashed"}
Running == ~MainEnded
\* Thread.is_alive()
IsAlive(k) == k # NoProc /\ thr[k].pc \notin ({"none"} \cup ExitPcs)
Started == {k \in Tids : thr[k].pc # "none"}
NextTid == Cardinality(Started) + 1

\* ---------------------------------------------------------------- Init
\* LocalMediaPlayer.__init__; returncode is the Popen.returncode of the
\* object player_process refers to
MediaInit ==
    [current_view |-> "dashboard", media_dir |-> RootDir,
     file_list |-> MediaDirectories, selected_index |-> 0,
     player_process |-> NoProc, returncode |-> "None",
     current_media_info |-> 0,
     playback_start_time |-> "None", playlist |-> <<>>,
     current_media_index |-> NoIndex, ipc_socket |-> "None",
     mpv_event_thread |-> NoProc, monitoring_mpv |-> FALSE]

\* a time that is None; the clock starts at Epoch, so that every reading of
\* it is a true value for the tests at local_music.py lines 127 and 128
NoTime == 0
Epoch  == 1

\* LocalMusicPlayer.__init__
MusicInit ==
    [current_view |-> "dashboard", music_dir |-> RootDir,
     file_list |-> MediaDirectories, selected_index |-> 0,
     player_process |-> NoProc, player_paused |-> FALSE,
     current_track_info |-> 0, playback_start_time |-> NoTime,
     pause_time |-> NoTime,
     playlist |-> <<>>, current_track_index |-> NoIndex]

\* volumes are percentages; 50 is the Spotify pane's start value
\* (spotify_player.py line 38) and what get_volume returns when amixer gives
\* no reading (radio_player.py line 266)
MaxVolume     == 100
DefaultVolume == 50

\* SpotifyPlayer.__init__, the fields main.py reads and writes
SpotifyInit ==
    [current_view |-> "explorer", selected_index |-> 0, current_playlist |-> 0,
     volume |-> DefaultVolume]

\* RadioPlayer.__init__
RadioInit ==
    [current_view |-> "radio", stations |-> <<>>, favorites |-> <<>>,
     selected_index |-> 0, current_station |-> 0, player_process |-> NoProc,
     volume |-> DefaultVolume]

\* CHANNELS_FILE before the first save: no such file
NoFile == [exists |-> FALSE, text |-> <<>>]

\* json.dump of a list of station records, and json.load of such a text
JsonDump(l) == [i \in 1..Len(l) |-> <<"object", l[i]>>]
JsonLoad(t) == [i \in 1..Len(t) |-> t[i][2]]

\* load_favorites, lines 274-282
LoadFavorites(f) == IF f.exists THEN JsonLoad(f.text) ELSE <<>>

\* save_favorites writing the first record only
SaveFavoritesPartial(favs) ==
    [exists |-> TRUE, text |-> JsonDump(SubSeq(favs, 1, 1))]

\* save_favorites, lines 284-287: the file is rewritten as a whole
SaveFavorites(favs) == [exists |-> TRUE, text |-> JsonDump(favs)]

Init ==
    /\ monocle_mode = FALSE
    /\ active_window = 0
    /\ music = MusicInit
    /\ media = MediaInit
    /\ radio = RadioInit
    /\ spotify = SpotifyInit
    /\ now = Epoch
    /\ channels = NoFile
    /\ proc = [p \in Pids |-> ProcInit]
    /\ sockOwner = NoProc
    /\ thr = [t \in Threads |-> IF t = 0 THEN [ThreadInit EXCEPT !.pc = "getch"]
                                 ELSE ThreadInit]

\* ------------------------------------------------ effects on the fields
\* the exit status a poll() finds; Popen.returncode keeps the first one found
ExitCodes == {"0", "nonzero"}
PolledIn(P, m, rc) ==
    IF m.player_process # NoProc /\ P[m.player_process].st = "exited"
    THEN [m EXCEPT !.returncode = rc] ELSE m
Polled(m, rc) == PolledIn(proc, m, rc)

\* stop_media with line 386 in the wrong branch: the handle is dropped when no
\* process was waited for, and kept when one was
SmClearMediaWrongBranch(m, waited) ==
    [m EXCEPT !.player_process = IF waited THEN @ ELSE NoProc,
              !.returncode = IF waited THEN @ ELSE "None",
              !.playback_start_time = "None", !.current_media_info = 0,
              !.monitoring_mpv = FALSE]

\* stop_media, lines 386-392 (line 386 only after a wait())
SmClearMedia(m, waited) ==
    [m EXCEPT !.player_process = IF waited THEN NoProc ELSE @,
              !.returncode = IF waited THEN "None" ELSE @,
              !.playback_start_time = "None", !.current_media_info = 0,
              !.monitoring_mpv = FALSE]

\* stop_media, lines 387-388: os.remove(self.ipc_socket) when it exists
SmRemoveSocket(owner, m, clean_ipc) ==
    IF clean_ipc /\ m.ipc_socket # "None" /\ owner # NoProc THEN NoProc ELSE owner

\* stop_media, lines 393-394, run by thread t: "pass", "wait" or "fault"
\* (Thread.join() raises RuntimeError when asked to join the current thread)
SmJoinOutcome(m, t) ==
    IF ~IsAlive(m.mpv_event_thread) THEN "pass"
    ELSE IF m.mpv_event_thread = t THEN "fault"
    ELSE "wait"

\* play_media_file, lines 238-276
PmMedia(m, file, pid, tid) ==
    [m EXCEPT !.ipc_socket = "path", !.player_process = pid,
              !.returncode = "None",
              !.current_media_info = file, !.playback_start_time = "set",
              !.monitoring_mpv = TRUE, !.mpv_event_thread = tid]

\* check_playback_status taking exit code 0 for the end of the track and
\* moving the cursor on
CpsResultAdvance(m) ==
    [m EXCEPT !.player_process = NoProc, !.returncode = "None",
              !.playback_start_time = "None",
              !.current_media_index = IF m.returncode = "0" THEN @ + 1 ELSE @,
              !.current_view = IF m.returncode = "0" THEN @ ELSE "player"]

\* check_playback_status without lines 376-379: the screen stays
CpsResultKeepView(m) ==
    [m EXCEPT !.player_process = NoProc, !.returncode = "None",
              !.playback_start_time = "None"]

\* check_playback_status, lines 366-379
CpsResult(m) ==
    [m EXCEPT !.player_process = NoProc, !.returncode = "None",
              !.playback_start_time = "None",
              !.current_view = IF m.returncode = "0" THEN @ ELSE "player"]

\* handle_playback_end, lines 347-348: is there a next track?
HpeHasNext(m) ==
    /\ m.playlist # <<>>
    /\ m.current_media_index # NoIndex
    /\ m.current_media_index + 1 < Len(m.playlist)

\* handle_playback_end, lines 351-357
HpeNoNext(m) == [m EXCEPT !.current_view = "player"]

\* monitor_mpv_events, lines 316-329: the lines of one received chunk, in
\* order: "idle" (handle_playback_end is called), "error" (message.get on a
\* JSON value that is no object raises, caught at line 334) or "continue"
RECURSIVE ScanLines(_)
ScanLines(s) ==
    IF s = <<>> THEN "continue"
    ELSE IF Head(s) = "idle" THEN "idle"
    ELSE IF Head(s) = "nonobject" THEN "error"
    ELSE ScanLines(Tail(s))

\* an uncaught exception: a monitor's is caught at line 334 and ends the
\* thread, the main loop's ends the application
FaultPc(t) == IF t = 0 THEN "crashed" ELSE "exit"

\* thread t moves on; a thread that ends, and a main loop that reaches its
\* next statement, drop their locals
Moved(T, t, label) ==
    [T EXCEPT ![t] = IF label \in ExitPcs THEN [ThreadInit EXCEPT !.pc = label]
                     ELSE [@ EXCEPT !.pc = label, !.return_code = "None"]]
Goto(t, label) == thr' = Moved(thr, t, label)

\* ------------------------------------------------------- environment
\* mpv creates its IPC socket some time after it was spawned
ProcBind(p) ==
    /\ Running
    /\ proc[p].st = "starting"
    /\ proc' = [proc EXCEPT ![p].st = "running"]
    /\ sockOwner' = p
    /\ UNCHANGED <<monocle_mode, active_window, spotify, now, channels, media, thr>>
    /\ UNCHANGED <<music, radio>>

\* mpv exits: after SIGTERM, at the end of the file, or closed by the user
ProcExit(p) ==
    /\ Running
    /\ Alive(p) /\ proc[p].st # "paused"
    /\ proc' = [proc EXCEPT ![p] = [ProcInit EXCEPT !.st = "exited"]]
    /\ UNCHANGED <<monocle_mode, active_window, spotify, now, channels, media, sockOwner, thr>>
    /\ UNCHANGED <<music, radio>>

\* ------------------------------------ LocalMediaPlayer.play_media_file
\* lines 234-276 run by thread t for file: the processes, the fields and the
\* threads afterwards
PmProc(file) ==
    LET old == media.player_process
        p1 == IF PollIsNone(old) THEN Terminate(proc, old) ELSE Reap(proc, old)
    IN [p1 EXCEPT ![NextPid] = [st |-> "starting", track |-> file]]

PmThreads(T) == [T EXCEPT ![NextTid] = [ThreadInit EXCEPT !.pc = "connect"]]

\* ------------------------------------------- LocalMediaPlayer.stop_media
\* where thread t continues after stop_media: main.cleanup is done (t = 0),
\* or handle_playback_end goes on at line 347
SmReturn(t) == IF t = 0 THEN "exited" ELSE "hpe_check"

\* lines 383-384, and lines 387-392 when no process is to be waited for;
\* clean_ipc is False only in handle_playback_end's call (t > 0)
SmPoll(t) ==
    /\ Running
    /\ thr[t].pc = "sm_poll"
    /\ IF PollIsNone(media.player_process)
       THEN /\ proc' = Terminate(proc, media.player_process)
            /\ Goto(t, "sm_wait")
            /\ UNCHANGED <<media, sockOwner>>
       ELSE /\ proc' = Reap(proc, media.player_process)
            /\ sockOwner' = SmRemoveSocket(sockOwner, media, t = 0)
            /\ \E rc \in ExitCodes :
                 media' = SmClearMedia(Polled(media, rc), FALSE)
            /\ Goto(t, "sm_join")
    /\ UNCHANGED <<monocle_mode, active_window, spotify, now, channels>>
    /\ UNCHANGED <<music, radio>>

\* lines 385-392: wait() returns once the process has exited
SmWait(t) ==
    /\ Running
    /\ thr[t].pc = "sm_wait"
    /\ IF media.player_process = NoProc
       THEN /\ Goto(t, FaultPc(t))
            /\ UNCHANGED <<media, proc, sockOwner>>
       ELSE /\ ~Alive(media.player_process)
            /\ proc' = Reap(proc, media.player_process)
            /\ sockOwner' = SmRemoveSocket(sockOwner, media, t = 0)
            /\ media' = SmClearMedia(media, TRUE)
            /\ Goto(t, "sm_join")
    /\ UNCHANGED <<monocle_mode, active_window, spotify, now, channels>>
    /\ UNCHANGED <<music, radio>>

\* RadioPlayer.stop_station
StopStationProc(r, P) ==
    IF r.player_process # NoProc THEN Terminate(P, r.player_process) ELSE P
StopStationRadio(r) == [r EXCEPT !.player_process = NoProc]

\* lines 393-394, then the return to the caller; main.cleanup goes on with
\* the radio pane's stop_station (main.py lines 145-146)
SmJoin(t) ==
    /\ Running
    /\ thr[t].pc = "sm_join"
    /\ SmJoinOutcome(media, t) # "wait"
    /\ Goto(t, IF SmJoinOutcome(media, t) = "fault" THEN FaultPc(t)
               ELSE SmReturn(t))
    /\ IF t = 0 /\ SmJoinOutcome(media, t) = "pass"
       THEN /\ proc' = StopStationProc(radio, proc)
            /\ radio' = StopStationRadio(radio)
       ELSE UNCHANGED <<proc, radio>>
    /\ UNCHANGED <<monocle_mode, active_window, spotify, now, channels, music, media, sockOwner>>

\* --------------------------------- LocalMediaPlayer.monitor_mpv_events
Connectable == sockOwner # NoProc /\ proc[sockOwner].st = "running"

\* lines 286-292 and 302-304
MonConnect(k) ==
    /\ Running
    /\ thr[k].pc = "connect"
    /\ Connectable
    /\ thr' = [thr EXCEPT ![k].pc = "read", ![k].client = sockOwner]
    /\ UNCHANGED <<monocle_mode, active_window, spotify, now, channels, media, proc, sockOwner>>
    /\ UNCHANGED <<music, radio>>

\* lines 297-299: ten seconds without a connection
MonConnectTimeout(k) ==
    /\ Running
    /\ thr[k].pc = "connect"
    /\ ~Connectable
    /\ Goto(k, "exit_noconn")
    /\ UNCHANGED <<monocle_mode, active_window, spotify, now, channels, media, proc, sockOwner>>
    /\ UNCHANGED <<music, radio>>

\* line 311 (and 338 when the flag is down)
MonLoop(k) ==
    /\ Running
    /\ thr[k].pc = "read"
    /\ Goto(k, IF media.monitoring_mpv THEN "recv" ELSE "exit")
    /\ UNCHANGED <<monocle_mode, active_window, spotify, now, channels, media, proc, sockOwner>>
    /\ UNCHANGED <<music, radio>>

\* where the monitor goes after the lines of one chunk
RecvPc(chunk) ==
    IF ScanLines(chunk) = "idle" THEN "sm_poll"
    ELSE IF ScanLines(chunk) = "error" THEN "exit" ELSE "read"

\* lines 313-329 and 334-336: recv() returned the lines of chunk, sent by
\* the process while it lived
MonRecv(k, chunk) ==
    /\ Running
    /\ thr[k].pc = "recv"
    /\ Alive(thr[k].client)
    /\ thr' = [Moved(thr, k, RecvPc(chunk)) EXCEPT
                 ![k].sigidx = IF RecvPc(chunk) = "sm_poll"
                               THEN media.current_media_index ELSE @]
    /\ UNCHANGED <<monocle_mode, active_window, spotify, now, channels, media, proc, sockOwner>>
    /\ UNCHANGED <<music, radio>>

\* lines 330-333 (and 314, 331): nothing arrived within the read timeout, or
\* the other end is closed
MonRecvTimeout(k) ==
    /\ Running
    /\ thr[k].pc = "recv"
    /\ Goto(k, "read")
    /\ UNCHANGED <<monocle_mode, active_window, spotify, now, channels, media, proc, sockOwner>>
    /\ UNCHANGED <<music, radio>>

\* --------------------------------- LocalMediaPlayer.handle_playback_end
\* lines 347-348 and 351-357 (line 345 is stop_media above)
HpeCheck(k) ==
    /\ Running
    /\ thr[k].pc = "hpe_check"
    /\ IF HpeHasNext(media)
       THEN /\ Goto(k, "hpe_next")
            /\ UNCHANGED media
       ELSE /\ media' = HpeNoNext(media)
            /\ Goto(k, "exit")
    /\ UNCHANGED <<monocle_mode, active_window, spotify, now, channels, proc, sockOwner>>
    /\ UNCHANGED <<music, radio>>

\* lines 349-350: the increment, then play_media_file(playlist[cursor]),
\* which raises IndexError when the playlist has become shorter
HpeNext(k) ==
    /\ Running
    /\ thr[k].pc = "hpe_next"
    /\ LET new == media.current_media_index + 1
           m1  == [media EXCEPT !.current_media_index = new]
       IN IF new < Len(media.playlist)
          THEN /\ NextPid <= MaxLaunch
               /\ media' = PmMedia(m1, media.playlist[new + 1], NextPid, NextTid)
               /\ proc' = PmProc(media.playlist[new + 1])
               /\ thr' = PmThreads(Moved(thr, k, "exit"))
          ELSE /\ media' = m1
               /\ Goto(k, FaultPc(k))
               /\ UNCHANGED proc
    /\ UNCHANGED <<monocle_mode, active_window, spotify, now, channels, sockOwner>>
    /\ UNCHANGED <<music, radio>>

\* ------------------------------------------ LocalMediaPlayer key handling
\* main.handle_keypress hands the key to the pane shown in monocle mode
MediaKeys == monocle_mode /\ active_window = 1 /\ thr[0].pc = "getch"

\* back in main_loop after handle_keypress returned a false value:
\* check_playback_status is called in monocle mode only
AfterKey(mono) == Goto(0, IF mono THEN "check" ELSE "getch")

\* handle_explorer_keypress, 'j' (lines 183-187)
MediaKeyDown ==
    /\ MediaKeys /\ media.current_view = "explorer"
    /\ media' = [media EXCEPT !.selected_index =
                    IF @ < Len(media.file_list) - 1 THEN @ + 1 ELSE @]
    /\ AfterKey(TRUE)
    /\ UNCHANGED <<monocle_mode, active_window, spotify, now, channels, proc, sockOwner>>
    /\ UNCHANGED <<music, radio>>

\* handle_explorer_keypress, 'k' (lines 188-192)
MediaKeyUp ==
    /\ MediaKeys /\ media.current_view = "explorer"
    /\ media' = [media EXCEPT !.selected_index = IF @ > 0 THEN @ - 1 ELSE @]
    /\ AfterKey(TRUE)
    /\ UNCHANGED <<monocle_mode, active_window, spotify, now, channels, proc, sockOwner>>
    /\ UNCHANGED <<music, radio>>

\* line 194: file_list[selected_index]
SelectedItem(m) == m.file_list[m.selected_index + 1]

\* handle_explorer_keypress, Enter on a directory (lines 193-201)
MediaEnterDir ==
    /\ MediaKeys /\ media.current_view = "explorer"
    /\ IsDir(SelectedItem(media))
    /\ media' = [media EXCEPT !.media_dir = SelectedItem(media),
                              !.file_list = DirContent(SelectedItem(media)),
                              !.selected_index = 0]
    /\ AfterKey(TRUE)
    /\ UNCHANGED <<monocle_mode, active_window, spotify, now, channels, proc, sockOwner>>
    /\ UNCHANGED <<music, radio>>

\* handle_explorer_keypress, Enter on a file: line 204, the new playlist
MediaEnterFile ==
    /\ MediaKeys /\ media.current_view = "explorer"
    /\ ~IsDir(SelectedItem(media))
    /\ NextPid <= MaxStart
    /\ media' = [media EXCEPT !.playlist = FilesOf(media.file_list)]
    /\ thr' = [thr EXCEPT ![0].pc = "enter_idx",
                          ![0].selected_item = SelectedItem(media)]
    /\ UNCHANGED <<monocle_mode, active_window, spotify, now, channels, proc, sockOwner>>
    /\ UNCHANGED <<music, radio>>

\* handle_explorer_keypress, Enter on a file: lines 206-208, the cursor,
\* play_media_file(playlist[cursor]) and the player screen
MediaEnterIndex ==
    /\ thr[0].pc = "enter_idx"
    /\ NextPid <= MaxLaunch
    /\ LET idx == IndexOf(media.playlist, thr[0].selected_item)
           m1  == [media EXCEPT !.current_media_index = idx,
                                !.current_view = "player"]
       IN /\ media' = PmMedia(m1, media.playlist[idx + 1], NextPid, NextTid)
          /\ proc' = PmProc(media.playlist[idx + 1])
          /\ thr' = PmThreads([thr EXCEPT ![0] = [ThreadInit EXCEPT !.pc = "check"]])
    /\ UNCHANGED <<monocle_mode, active_window, spotify, now, channels, sockOwner>>
    /\ UNCHANGED <<music, radio>>

\* handle_explorer_keypress, Enter on a file, when subprocess.Popen (line
\* 241) raises OSError, mpv being missing or not executable: lines 206 and
\* 234-238 have run; nothing between play_media_file and main_loop catches
\* the exception
MediaSpawnFails ==
    /\ thr[0].pc = "enter_idx"
    /\ LET idx == IndexOf(media.playlist, thr[0].selected_item)
           old == media.player_process
       IN /\ media' = [media EXCEPT !.current_media_index = idx,
                                    !.ipc_socket = "path"]
          /\ proc' = IF PollIsNone(old) THEN Terminate(proc, old)
                     ELSE Reap(proc, old)
    /\ Goto(0, "crashed")
    /\ UNCHANGED <<monocle_mode, active_window, spotify, now, channels, sockOwner>>
    /\ UNCHANGED <<music, radio>>

\* handle_explorer_keypress, Backspace (lines 212-221), then main.py lines
\* 186-189: a pane showing its dashboard leaves monocle mode
MediaBackspaceExplorer ==
    /\ MediaKeys /\ media.current_view = "explorer"
    /\ IF media.media_dir = RootDir
       THEN /\ media' = [media EXCEPT !.current_view = "dashboard",
                                      !.file_list = MediaDirectories]
            /\ monocle_mode' = FALSE
            /\ AfterKey(FALSE)
       ELSE /\ media' = [media EXCEPT !.media_dir = ParentDir(@),
                                      !.file_list = DirContent(ParentDir(media.media_dir)),
                                      !.selected_index = 0]
            /\ AfterKey(TRUE)
            /\ UNCHANGED monocle_mode
    /\ UNCHANGED <<active_window, spotify, now, channels, proc, sockOwner>>
    /\ UNCHANGED <<music, radio>>

\* handle_player_keypress, Backspace (lines 226-229)
MediaBackspacePlayer ==
    /\ MediaKeys /\ media.current_view = "player"
    /\ media' = [media EXCEPT !.current_view = "explorer"]
    /\ AfterKey(TRUE)
    /\ UNCHANGED <<monocle_mode, active_window, spotify, now, channels, proc, sockOwner>>
    /\ UNCHANGED <<music, radio>>

\* main_loop checking the local-media pane whichever pane is active
CheckStatusAnyPane ==
    /\ monocle_mode
    /\ thr[0].pc \in {"getch", "check"}
    /\ IF media.player_process # NoProc /\ ~Alive(media.player_process)
       THEN /\ \E rc \in ExitCodes :
                 media' = [Polled(media, rc) EXCEPT !.monitoring_mpv = FALSE]
            /\ proc' = Reap(proc, media.player_process)
            /\ Goto(0, "cps_join")
       ELSE /\ thr[0].pc = "check"
            /\ Goto(0, "getch")
            /\ UNCHANGED <<media, proc>>
    /\ UNCHANGED <<monocle_mode, active_window, spotify, now, channels, sockOwner>>
    /\ UNCHANGED <<music, radio>>

\* ------------------------------- LocalMediaPlayer.check_playback_status
\* main_loop, lines 194-205: an iteration in monocle mode whose key (if any)
\* was handled; check_playback_status lines 361-363
CheckStatus ==
    /\ monocle_mode /\ active_window = 1
    /\ thr[0].pc \in {"getch", "check"}
    /\ IF media.player_process # NoProc /\ ~Alive(media.player_process)
       THEN /\ \E rc \in ExitCodes :
                 media' = [Polled(media, rc) EXCEPT !.monitoring_mpv = FALSE]
            /\ proc' = Reap(proc, media.player_process)
            /\ Goto(0, "cps_join")
       ELSE /\ thr[0].pc = "check"
            /\ Goto(0, "getch")
            /\ UNCHANGED <<media, proc>>
    /\ UNCHANGED <<monocle_mode, active_window, spotify, now, channels, sockOwner>>
    /\ UNCHANGED <<music, radio>>

\* check_playback_status, lines 364-365: join() returns when the monitor ends
CpsJoin ==
    /\ thr[0].pc = "cps_join"
    /\ ~IsAlive(media.mpv_event_thread)
    /\ Goto(0, "cps_rc")
    /\ UNCHANGED <<monocle_mode, active_window, spotify, now, channels, media, proc, sockOwner>>
    /\ UNCHANGED <<music, radio>>

\* check_playback_status, lines 366-379; a handle that has become None in
\* the meantime has no attribute returncode
CpsFinish ==
    /\ thr[0].pc = "cps_rc"
    /\ IF media.player_process = NoProc
       THEN /\ Goto(0, "crashed")
            /\ UNCHANGED media
       ELSE /\ media' = CpsResult(media)
            /\ thr' = [thr EXCEPT ![0].pc = "getch",
                                  ![0].return_code = media.returncode]
    /\ UNCHANGED <<monocle_mode, active_window, spotify, now, channels, proc, sockOwner>>
    /\ UNCHANGED <<music, radio>>

\* ------------------------------------------------------ LocalMusicPlayer
MusicKeys == monocle_mode /\ active_window = 0 /\ thr[0].pc = "getch"

\* play_music_file, lines 326-396: the processes and the fields afterwards
MuPlayProc(m, P, file) ==
    LET old == m.player_process
        p1 == IF PollIsNone(old) THEN Terminate(P, old) ELSE Reap(P, old)
    IN [p1 EXCEPT ![NextPid] = [st |-> "running", track |-> file]]
MuPlayMusic(m, file, pid) ==
    [m EXCEPT !.player_process = pid, !.current_track_info = file,
              !.playback_start_time = now, !.player_paused = FALSE]

\* stop_music, lines 426-428
StopMusicProc(m, P) ==
    IF PollIsNone(m.player_process) THEN Terminate(P, m.player_process)
    ELSE Reap(P, m.player_process)
StopMusicMusic(m) ==
    IF PollIsNone(m.player_process) THEN [m EXCEPT !.player_process = NoProc]
    ELSE m

\* stop_media, lines 84-88 (line 84 only after a wait())
MuClear(m, waited) ==
    [m EXCEPT !.player_process = IF waited THEN NoProc ELSE @,
              !.playback_start_time = NoTime, !.player_paused = FALSE,
              !.current_track_index = NoIndex, !.current_track_info = 0]

\* handle_explorer_keypress, 'j' (lines 208-215)
MusicKeyDown ==
    /\ MusicKeys /\ music.current_view = "explorer"
    /\ music' = [music EXCEPT !.selected_index =
                    IF @ < Len(music.file_list) - 1 THEN @ + 1 ELSE @]
    /\ UNCHANGED <<monocle_mode, active_window, spotify, now, channels, media, radio, proc, sockOwner, thr>>

\* handle_explorer_keypress, 'k' (lines 217-224)
MusicKeyUp ==
    /\ MusicKeys /\ music.current_view = "explorer"
    /\ music' = [music EXCEPT !.selected_index = IF @ > 0 THEN @ - 1 ELSE @]
    /\ UNCHANGED <<monocle_mode, active_window, spotify, now, channels, media, radio, proc, sockOwner, thr>>

\* handle_explorer_keypress, Enter on a directory (lines 226-233)
MusicEnterDir ==
    /\ MusicKeys /\ music.current_view = "explorer"
    /\ IsDir(SelectedItem(music))
    /\ music' = [music EXCEPT !.music_dir = SelectedItem(music),
                              !.file_list = DirContent(SelectedItem(music)),
                              !.selected_index = 0]
    /\ UNCHANGED <<monocle_mode, active_window, spotify, now, channels, media, radio, proc, sockOwner, thr>>

\* handle_explorer_keypress, Enter on a file (lines 234-241)
MusicEnterFile ==
    /\ MusicKeys /\ music.current_view = "explorer"
    /\ ~IsDir(SelectedItem(music))
    /\ NextPid <= MaxStart
    /\ LET pl  == FilesOf(music.file_list)
           idx == IndexOf(pl, SelectedItem(music))
           m1  == [music EXCEPT !.playlist = pl, !.current_track_index = idx,
                                !.current_view = "player"]
       IN /\ music' = MuPlayMusic(m1, pl[idx + 1], NextPid)
          /\ proc' = MuPlayProc(music, proc, pl[idx + 1])
    /\ UNCHANGED <<monocle_mode, active_window, spotify, now, channels, media, radio, sockOwner, thr>>

\* handle_explorer_keypress, Enter on a file, when subprocess.Popen (line
\* 330) raises OSError: lines 236-238 and 326-327 have run; nothing between
\* play_music_file and main_loop catches the exception
MusicSpawnFails ==
    /\ MusicKeys /\ music.current_view = "explorer"
    /\ ~IsDir(SelectedItem(music))
    /\ LET pl  == FilesOf(music.file_list)
           old == music.player_process
       IN /\ music' = [music EXCEPT !.playlist = pl,
                          !.current_track_index = IndexOf(pl, SelectedItem(music))]
          /\ proc' = IF PollIsNone(old) THEN Terminate(proc, old)
                     ELSE Reap(proc, old)
    /\ Goto(0, "crashed")
    /\ UNCHANGED <<monocle_mode, active_window, spotify, now, channels, media, radio,
                   sockOwner>>

\* handle_explorer_keypress, Enter on a file in which mutagen finds no known
\* format: MutagenFile returns None (line 338) and audio.info (line 339)
\* raises AttributeError after the process was started; nothing catches it
MusicEnterFileUnreadable ==
    /\ MusicKeys /\ music.current_view = "explorer"
    /\ ~IsDir(SelectedItem(music))
    /\ NextPid <= MaxStart
    /\ LET pl  == FilesOf(music.file_list)
           idx == IndexOf(pl, SelectedItem(music))
       IN /\ music' = [music EXCEPT !.playlist = pl, !.current_track_index = idx,
                                    !.player_process = NextPid]
          /\ proc' = MuPlayProc(music, proc, pl[idx + 1])
    /\ Goto(0, "crashed")
    /\ UNCHANGED <<monocle_mode, active_window, spotify, now, channels, media, radio,
                   sockOwner>>

\* handle_explorer_keypress, Backspace (lines 259-274), then main.py lines
\* 186-189
MusicBackspaceExplorer ==
    /\ MusicKeys /\ music.current_view = "explorer"
    /\ IF music.music_dir = RootDir
       THEN /\ music' = [music EXCEPT !.current_view = "dashboard",
                                      !.file_list = MediaDirectories]
            /\ monocle_mode' = FALSE
            /\ UNCHANGED proc
       ELSE /\ music' = [StopMusicMusic(music) EXCEPT
                            !.music_dir = ParentDir(@),
                            !.file_list = DirContent(ParentDir(music.music_dir)),
                            !.selected_index = 0]
            /\ proc' = IF music.player_process # NoProc
                       THEN StopMusicProc(music, proc) ELSE proc
            /\ UNCHANGED monocle_mode
    /\ UNCHANGED <<active_window, spotify, now, channels, media, radio, sockOwner, thr>>

\* render_player, lines 127-129: the elapsed time shown at time t
Elapsed(m, t) ==
    IF m.player_paused /\ m.pause_time # NoTime
    THEN m.pause_time - m.playback_start_time
    ELSE IF m.playback_start_time # NoTime THEN t - m.playback_start_time
    ELSE 0

\* toggle_playback resuming without line 417: the start time is left alone
ResumeStartNoShift(m, t) == m.playback_start_time

\* toggle_playback, line 417: the start time moves by the length of the pause
ResumeStart(m, t) == m.playback_start_time + (t - m.pause_time)

\* toggle_playback, lines 414-422: 'p', or a click on the play/pause button
MusicTogglePlayback ==
    /\ MusicKeys /\ music.current_view = "player"
    /\ IF PollIsNone(music.player_process)
       THEN /\ music' = IF music.player_paused
                        THEN [music EXCEPT
                                 !.playback_start_time = ResumeStart(music, now),
                                 !.player_paused = FALSE]
                        ELSE [music EXCEPT !.pause_time = now,
                                           !.player_paused = TRUE]
            /\ proc' = [proc EXCEPT ![music.player_process].st =
                           IF music.player_paused
                           THEN (IF @ = "paused" THEN "running" ELSE @)
                           ELSE (IF @ = "running" THEN "paused" ELSE @)]
       ELSE /\ proc' = Reap(proc, music.player_process)
            /\ UNCHANGED music
    /\ UNCHANGED <<monocle_mode, active_window, spotify, now, channels, media, radio, sockOwner, thr>>

\* next_track and previous_track stopping at the ends of the playlist
MusicStepNoWrap(d) ==
    /\ MusicKeys /\ music.current_view = "player"
    /\ music.playlist # <<>> /\ music.current_track_index # NoIndex
    /\ NextPid <= MaxStart
    /\ LET new == music.current_track_index + d
           idx == IF new < 0 THEN 0
                  ELSE IF new >= Len(music.playlist) THEN Len(music.playlist) - 1
                  ELSE new
           m1  == [music EXCEPT !.current_track_index = idx]
       IN /\ music' = MuPlayMusic(m1, music.playlist[idx + 1], NextPid)
          /\ proc' = MuPlayProc(music, proc, music.playlist[idx + 1])
    /\ UNCHANGED <<monocle_mode, active_window, spotify, now, channels, media, radio, sockOwner, thr>>

\* next_track (d = 1, lines 400-403) and previous_track (d = -1, lines
\* 407-410): 'n' and 'b', or a click on their buttons
MusicStep(d) ==
    /\ MusicKeys /\ music.current_view = "player"
    /\ music.playlist # <<>> /\ music.current_track_index # NoIndex
    /\ NextPid <= MaxStart
    /\ LET idx == (music.current_track_index + d) % Len(music.playlist)
           m1  == [music EXCEPT !.current_track_index = idx]
       IN /\ music' = MuPlayMusic(m1, music.playlist[idx + 1], NextPid)
          /\ proc' = MuPlayProc(music, proc, music.playlist[idx + 1])
    /\ UNCHANGED <<monocle_mode, active_window, spotify, now, channels, media, radio, sockOwner, thr>>

\* handle_player_keypress, KEY_BACKSPACE (lines 303-307)
MusicBackspacePlayer ==
    /\ MusicKeys /\ music.current_view = "player"
    /\ music' = [StopMusicMusic(music) EXCEPT !.current_view = "explorer"]
    /\ proc' = StopMusicProc(music, proc)
    /\ UNCHANGED <<monocle_mode, active_window, spotify, now, channels, media, radio, sockOwner, thr>>

\* stop_media, lines 83-88, called by main.cleanup: wait() returns once the
\* process has exited; cleanup goes on with the local-media pane
MuWait ==
    /\ thr[0].pc = "mu_wait"
    /\ ~Alive(music.player_process)
    /\ proc' = Reap(proc, music.player_process)
    /\ music' = MuClear(music, TRUE)
    /\ Goto(0, "sm_poll")
    /\ UNCHANGED <<monocle_mode, active_window, spotify, now, channels, media, radio, sockOwner>>

\* ----------------------------------------------------------- RadioPlayer
RadioKeys == monocle_mode /\ active_window = 3 /\ thr[0].pc = "getch"

\* what the station directory answers: the stations, or nothing on an error
StationLists == {<<>>, <<1, 2>>}

\* handle_radio_keypress, 's' (lines 130-135) with search_stations
RadioSearch ==
    /\ RadioKeys /\ radio.current_view = "radio"
    /\ \E found \in StationLists :
         radio' = [radio EXCEPT !.stations = found, !.current_view = "stations",
                                !.selected_index = 0]
    /\ UNCHANGED <<monocle_mode, active_window, spotify, now, channels, music, media, proc, sockOwner, thr>>

\* handle_stations_keypress, 'j' (lines 156-160)
RadioKeyDown ==
    /\ RadioKeys /\ radio.current_view = "stations"
    /\ radio' = [radio EXCEPT !.selected_index =
                    IF @ < Len(radio.stations) - 1 THEN @ + 1 ELSE @]
    /\ UNCHANGED <<monocle_mode, active_window, spotify, now, channels, music, media, proc, sockOwner, thr>>

\* handle_stations_keypress, 'k' (lines 161-165)
RadioKeyUp ==
    /\ RadioKeys /\ radio.current_view = "stations"
    /\ radio' = [radio EXCEPT !.selected_index = IF @ > 0 THEN @ - 1 ELSE @]
    /\ UNCHANGED <<monocle_mode, active_window, spotify, now, channels, music, media, proc, sockOwner, thr>>

\* handle_stations_keypress, Enter (lines 166-173) with play_station (lines
\* 240-243); stations[selected_index] of an empty list raises IndexError
RadioPlayStation ==
    /\ RadioKeys /\ radio.current_view = "stations"
    /\ IF radio.stations = <<>>
       THEN /\ Goto(0, "crashed")
            /\ UNCHANGED <<radio, proc>>
       ELSE /\ NextPid <= MaxStart
            /\ radio' = [radio EXCEPT
                            !.current_station = radio.stations[radio.selected_index + 1],
                            !.player_process = NextPid,
                            !.current_view = "radio"]
            /\ proc' = [StopStationProc(radio, proc) EXCEPT ![NextPid] =
                          [st |-> "running",
                           track |-> radio.stations[radio.selected_index + 1]]]
            /\ UNCHANGED thr
    /\ UNCHANGED <<monocle_mode, active_window, spotify, now, channels, music, media, sockOwner>>

\* handle_stations_keypress, Backspace (lines 188-191)
RadioBackspaceStations ==
    /\ RadioKeys /\ radio.current_view = "stations"
    /\ radio' = [radio EXCEPT !.current_view = "radio"]
    /\ UNCHANGED <<monocle_mode, active_window, spotify, now, channels, music, media, proc, sockOwner, thr>>

\* handle_radio_keypress, Backspace (lines 146-150), then main.py lines
\* 186-189
RadioBackspace ==
    /\ RadioKeys /\ radio.current_view = "radio"
    /\ radio' = [StopStationRadio(radio) EXCEPT !.current_view = "dashboard"]
    /\ proc' = StopStationProc(radio, proc)
    /\ monocle_mode' = FALSE
    /\ UNCHANGED <<active_window, spotify, now, channels, music, media, sockOwner, thr>>

\* handle_radio_keypress, 'f' (lines 136-140)
RadioShowFavorites ==
    /\ RadioKeys /\ radio.current_view = "radio"
    /\ radio' = [radio EXCEPT !.current_view = "favorites", !.selected_index = 0]
    /\ UNCHANGED <<monocle_mode, active_window, spotify, now, channels, music,
                   media, proc, sockOwner, thr>>

\* s without its element at 0-based position i: del s[i]
DelAt(s, i) == SubSeq(s, 1, i) \o SubSeq(s, i + 2, Len(s))
InSeq(x, s) == \E i \in 1..Len(s) : s[i] = x

\* handle_stations_keypress, 'f' (lines 174-187); stations[selected_index]
\* of an empty list raises IndexError
RadioAddFavorite ==
    /\ RadioKeys /\ radio.current_view = "stations"
    /\ IF radio.stations = <<>>
       THEN /\ Goto(0, "crashed")
            /\ UNCHANGED <<radio, channels>>
       ELSE LET station == radio.stations[radio.selected_index + 1]
                favs    == Append(radio.favorites, station)
            IN IF InSeq(station, radio.favorites)
               THEN UNCHANGED <<radio, channels, thr>>
               ELSE /\ radio' = [radio EXCEPT !.favorites = favs]
                    /\ channels' = SaveFavorites(favs)
                    /\ UNCHANGED thr
    /\ UNCHANGED <<monocle_mode, active_window, spotify, now, music, media, proc,
                   sockOwner>>

\* handle_favorites_keypress, 'j' (lines 196-200)
RadioFavKeyDown ==
    /\ RadioKeys /\ radio.current_view = "favorites"
    /\ radio' = [radio EXCEPT !.selected_index =
                    IF @ < Len(radio.favorites) - 1 THEN @ + 1 ELSE @]
    /\ UNCHANGED <<monocle_mode, active_window, spotify, now, channels, music,
                   media, proc, sockOwner, thr>>

\* handle_favorites_keypress, 'k' (lines 201-205)
RadioFavKeyUp ==
    /\ RadioKeys /\ radio.current_view = "favorites"
    /\ radio' = [radio EXCEPT !.selected_index = IF @ > 0 THEN @ - 1 ELSE @]
    /\ UNCHANGED <<monocle_mode, active_window, spotify, now, channels, music,
                   media, proc, sockOwner, thr>>

\* handle_favorites_keypress, 'd' (lines 214-221); del favorites[selected_index]
\* of an empty list raises IndexError
RadioDeleteFavorite ==
    /\ RadioKeys /\ radio.current_view = "favorites"
    /\ IF radio.favorites = <<>>
       THEN /\ Goto(0, "crashed")
            /\ UNCHANGED <<radio, channels>>
       ELSE LET favs == DelAt(radio.favorites, radio.selected_index)
                sel  == radio.selected_index
            IN /\ radio' = [radio EXCEPT !.favorites = favs,
                               !.selected_index =
                                  IF sel >= Len(favs) /\ sel > 0 THEN sel - 1
                                  ELSE sel]
               /\ channels' = SaveFavorites(favs)
               /\ UNCHANGED thr
    /\ UNCHANGED <<monocle_mode, active_window, spotify, now, music, media, proc,
                   sockOwner>>

\* handle_favorites_keypress, Backspace (lines 222-225)
RadioBackspaceFavorites ==
    /\ RadioKeys /\ radio.current_view = "favorites"
    /\ radio' = [radio EXCEPT !.current_view = "radio"]
    /\ UNCHANGED <<monocle_mode, active_window, spotify, now, channels, music,
                   media, proc, sockOwner, thr>>

\* ------------------------------------------------------------- main.py
\* a run exercises one pane: the others are as constructed
Fresh(w) ==
    /\ w # 0 => music = MusicInit
    /\ w # 1 => media = MediaInit
    /\ w # 3 => radio = RadioInit

\* handle_mouse, lines 110-128: a click on the quadrant of pane w.  The
\* local-media pane has no handle_mouse of its own, so a click in monocle
\* mode is treated the same way
HandleMouse(w) ==
    /\ thr[0].pc = "getch"
    /\ Fresh(w)
    /\ IF monocle_mode THEN active_window = 1 /\ w = 1 ELSE TRUE
    /\ active_window' = w
    /\ monocle_mode' = TRUE
    /\ music' = IF w = 0 THEN [music EXCEPT !.current_view = "explorer",
                                            !.selected_index = 0] ELSE music
    /\ media' = IF w = 1 THEN [media EXCEPT !.current_view = "explorer",
                                            !.selected_index = 0] ELSE media
    /\ radio' = IF w = 3 THEN [radio EXCEPT !.current_view = "radio",
                                            !.selected_index = 0] ELSE radio
    /\ AfterKey(w = 1)
    /\ UNCHANGED <<proc, sockOwner, spotify, now, channels>>

\* the four quadrants of handle_mouse, lines 111-118, and the last index of
\* self.windows (lines 175 and 179)
Quadrants == 0..3
LastPane  == 3

\* the screen and the selection of pane w
ViewIn(mu, me, sp, ra, w) ==
    CASE w = 0 -> mu.current_view [] w = 1 -> me.current_view
      [] w = 2 -> sp.current_view [] w = 3 -> ra.current_view
SelectionIn(mu, me, sp, ra, w) ==
    CASE w = 0 -> mu.selected_index [] w = 1 -> me.selected_index
      [] w = 2 -> sp.selected_index [] w = 3 -> ra.selected_index
ActiveView == ViewIn(music, media, spotify, radio, active_window)

\* handle_mouse with line 124 left out: the pane keeps its 'dashboard' screen
EntryViewKeepsDashboard(w) == "dashboard"

\* handle_mouse, line 124: the screen a click gives the pane
EntryView(w) == IF w = 3 THEN "radio" ELSE "explorer"

\* handle_mouse with line 126 left out: the selection is kept
ClickResetKeepsSelection(pane, w) == [pane EXCEPT !.current_view = EntryView(w)]

\* handle_mouse, lines 124-126
ClickReset(pane, w) ==
    [pane EXCEPT !.current_view = EntryView(w), !.selected_index = 0]

\* handle_mouse, lines 96-128, for any pane in any state: a click on quadrant
\* w in tiled mode, or in monocle mode on the local-media pane, which has no
\* handle_mouse of its own
HandleMouseQuadrant(w) ==
    /\ thr[0].pc = "getch"
    /\ monocle_mode => active_window = 1
    /\ active_window' = w
    /\ monocle_mode' = TRUE
    /\ music' = IF w = 0 THEN ClickReset(music, w) ELSE music
    /\ media' = IF w = 1 THEN ClickReset(media, w) ELSE media
    /\ spotify' = IF w = 2 THEN [ClickReset(spotify, w) EXCEPT
                                    !.current_playlist = 0] ELSE spotify
    /\ radio' = IF w = 3 THEN ClickReset(radio, w) ELSE radio
    /\ AfterKey(w = 1)
    /\ UNCHANGED <<proc, sockOwner, now, channels>>

\* handle_keypress with 'm', lines 166-169, made to enter the clicked pane as
\* a click does
KeyMEntersPane ==
    /\ thr[0].pc = "getch"
    /\ monocle_mode' = TRUE
    /\ music' = IF active_window = 0 THEN ClickReset(music, 0) ELSE music
    /\ Goto(0, "m_returned")
    /\ UNCHANGED <<active_window, media, radio, spotify, proc, sockOwner, now, channels>>

\* handle_keypress with 'm', lines 166-169: no pane handles 'm'; the call
\* returns True
KeyM ==
    /\ thr[0].pc = "getch"
    /\ monocle_mode' = TRUE
    /\ Goto(0, "m_returned")
    /\ UNCHANGED <<active_window, music, media, radio, spotify, proc, sockOwner,
                   now, channels>>

\* handle_keypress called again after a call that returned True for 'm'.
\* main_loop leaves its loop on that value (lines 195-196) and does not make
\* this call; a caller of the method can
CallAgain ==
    /\ thr[0].pc = "m_returned"
    /\ Goto(0, "getch")
    /\ UNCHANGED <<monocle_mode, active_window, music, media, radio, spotify,
                   proc, sockOwner, now, channels>>

\* handle_keypress with 't', lines 170-172: no pane handles 't'
KeyT ==
    /\ thr[0].pc = "getch"
    /\ monocle_mode' = FALSE
    /\ UNCHANGED <<active_window, music, media, radio, spotify, proc, sockOwner,
                   thr, now, channels>>

\* handle_keypress with 'j', lines 173-177: the pane at 'dashboard' handles
\* no 'j'
KeyJ ==
    /\ thr[0].pc = "getch"
    /\ monocle_mode /\ ActiveView = "dashboard" /\ active_window < LastPane
    /\ active_window' = active_window + 1
    /\ AfterKey(active_window' = 1)
    /\ UNCHANGED <<monocle_mode, music, media, radio, spotify, proc, sockOwner,
                   now, channels>>

\* handle_keypress with 'k', lines 178-181
KeyK ==
    /\ thr[0].pc = "getch"
    /\ monocle_mode /\ ActiveView = "dashboard" /\ active_window > 0
    /\ active_window' = active_window - 1
    /\ AfterKey(active_window' = 1)
    /\ UNCHANGED <<monocle_mode, music, media, radio, spotify, proc, sockOwner,
                   now, channels>>

\* LocalMusicPlayer.handle_keypress, Enter at 'dashboard' (lines 191-197)
MusicEnterDashboard ==
    /\ MusicKeys /\ music.current_view = "dashboard"
    /\ music' = [music EXCEPT !.current_view = "explorer", !.music_dir = RootDir,
                              !.file_list = DirContent(RootDir),
                              !.selected_index = 0]
    /\ UNCHANGED <<monocle_mode, active_window, spotify, now, channels, media, radio, proc,
                   sockOwner, thr>>

\* LocalMediaPlayer.handle_keypress, Enter at 'dashboard' (lines 167-173)
MediaEnterDashboard ==
    /\ MediaKeys /\ media.current_view = "dashboard"
    /\ media' = [media EXCEPT !.current_view = "explorer", !.media_dir = RootDir,
                              !.file_list = DirContent(RootDir),
                              !.selected_index = 0]
    /\ AfterKey(TRUE)
    /\ UNCHANGED <<monocle_mode, active_window, spotify, now, channels, music, radio, proc,
                   sockOwner>>

\* ------------------------------------------------------- SpotifyPlayer
SpotifyKeys == monocle_mode /\ active_window = 2 /\ thr[0].pc = "getch"

\* self.items, the playlists fetched by __init__ (lines 26-28, 139)
SpotifyItems == <<1, 2>>

\* handle_explorer_keypress, 'j' (lines 496-500)
SpotifyKeyDown ==
    /\ SpotifyKeys /\ spotify.current_view = "explorer"
    /\ spotify' = [spotify EXCEPT !.selected_index =
                      IF @ < Len(SpotifyItems) - 1 THEN @ + 1 ELSE @]
    /\ UNCHANGED <<monocle_mode, active_window, now, channels, music, media, radio, proc,
                   sockOwner, thr>>

\* handle_explorer_keypress, 'k' (lines 501-505)
SpotifyKeyUp ==
    /\ SpotifyKeys /\ spotify.current_view = "explorer"
    /\ spotify' = [spotify EXCEPT !.selected_index = IF @ > 0 THEN @ - 1 ELSE @]
    /\ UNCHANGED <<monocle_mode, active_window, now, channels, music, media, radio, proc,
                   sockOwner, thr>>

\* handle_explorer_keypress, Backspace, made to release the layout while the
\* pane stays on its explorer
SpotifyBackspaceKeepsView ==
    /\ SpotifyKeys /\ spotify.current_view = "explorer"
    /\ monocle_mode' = FALSE
    /\ UNCHANGED <<spotify, active_window, now, channels, music, media, radio, proc,
                   sockOwner, thr>>

\* handle_explorer_keypress, Backspace (lines 542-547), then main.py lines
\* 186-189
SpotifyBackspaceExplorer ==
    /\ SpotifyKeys /\ spotify.current_view = "explorer"
    /\ spotify' = [spotify EXCEPT !.current_view = "dashboard"]
    /\ monocle_mode' = FALSE
    /\ UNCHANGED <<active_window, now, channels, music, media, radio, proc, sockOwner, thr>>

\* handle_keypress, lines 163-165: 'q' or Esc, which no pane handles;
\* cleanup() starts with the local-music pane's stop_media (lines 81-82, or
\* lines 85-88 when no process is to be waited for), then goes on with the
\* local-media pane's
KeyQuit ==
    /\ thr[0].pc = "getch"
    /\ IF PollIsNone(music.player_process)
       THEN /\ proc' = Terminate(proc, music.player_process)
            /\ Goto(0, "mu_wait")
            /\ UNCHANGED music
       ELSE /\ proc' = Reap(proc, music.player_process)
            /\ music' = MuClear(music, FALSE)
            /\ Goto(0, "sm_poll")
    /\ UNCHANGED <<monocle_mode, active_window, spotify, now, channels, media, radio, sockOwner>>

\* ---------------------------------------------------------------- Next
Next ==
    \/ MediaKeyDown \/ MediaKeyUp \/ MediaEnterDir \/ MediaEnterFile
    \/ MediaEnterIndex \/ MediaSpawnFails
    \/ MediaBackspaceExplorer \/ MediaBackspacePlayer
    \/ CheckStatus \/ CpsJoin \/ CpsFinish
    \/ \E w \in Panes : HandleMouse(w)
    \/ KeyQuit
    \/ MusicKeyDown \/ MusicKeyUp \/ MusicEnterDir \/ MusicEnterFile
    \/ MusicSpawnFails \/ MusicEnterFileUnreadable
    \/ MusicBackspaceExplorer \/ MusicTogglePlayback
    \/ \E d \in {1, -1} : MusicStep(d)
    \/ MusicBackspacePlayer \/ MuWait
    \/ RadioSearch \/ RadioKeyDown \/ RadioKeyUp \/ RadioPlayStation
    \/ RadioBackspaceStations \/ RadioBackspace
    \/ RadioShowFavorites \/ RadioAddFavorite \/ RadioFavKeyDown
    \/ RadioFavKeyUp \/ RadioDeleteFavorite \/ RadioBackspaceFavorites
    \/ \E t \in Threads : SmPoll(t) \/ SmWait(t) \/ SmJoin(t)
    \/ \E k \in Tids :
          \/ MonConnect(k) \/ MonConnectTimeout(k) \/ MonLoop(k)
          \/ \E chunk \in Chunks : MonRecv(k, chunk)
          \/ MonRecvTimeout(k)
          \/ HpeCheck(k) \/ HpeNext(k)
    \/ \E p \in Pids : ProcBind(p) \/ ProcExit(p)

Spec == Init /\ [][Next]_vars

\* ------------------------------------------------- the clock of the music pane
\* time.time() is read at lines 127, 395, 417 and 421 of local_music.py; it
\* advances between any two steps of the program
Tick ==
    /\ now < MaxTime
    /\ now' = now + 1
    /\ UNCHANGED <<monocle_mode, active_window, music, media, radio, proc,
                   sockOwner, thr, spotify, channels>>

\* the local-music pane with a running clock
TimeNext ==
    \/ Tick
    \/ HandleMouse(0)
    \/ MusicKeyDown \/ MusicKeyUp \/ MusicEnterDir \/ MusicEnterFile
    \/ MusicBackspaceExplorer \/ MusicTogglePlayback
    \/ \E d \in {1, -1} : MusicStep(d)
    \/ MusicBackspacePlayer
    \/ \E p \in Pids : ProcExit(p)

TimeSpec == Init /\ [][TimeNext]_vars

\* ------------------------------------------------ the navigation layer
\* handle_keypress and handle_mouse as methods of MediaDashboardApp, called
\* one after another on the object as constructed, with the navigation keys
\* of every pane; none of the panes plays on the local-media or radio pane
NavNext ==
    \/ KeyM \/ CallAgain \/ KeyT \/ KeyJ \/ KeyK
    \/ \E w \in Quadrants : HandleMouseQuadrant(w)
    \/ MusicEnterDashboard \/ MusicKeyDown \/ MusicKeyUp \/ MusicEnterDir
    \/ MusicEnterFile \/ MusicBackspaceExplorer \/ MusicBackspacePlayer
    \/ MediaEnterDashboard \/ MediaKeyDown \/ MediaKeyUp \/ MediaEnterDir
    \/ MediaBackspaceExplorer \/ CheckStatus
    \/ SpotifyKeyDown \/ SpotifyKeyUp \/ SpotifyBackspaceExplorer
    \/ RadioSearch \/ RadioKeyDown \/ RadioKeyUp \/ RadioBackspaceStations
    \/ RadioBackspace

NavSpec == Init /\ [][NavNext]_vars

\* ------------------------------------------- stop, run without interruption
\* The state a stop call returns in when nothing else runs meanwhile except
\* what it waits for: the process it terminated exits and is collected by
\* wait(), the monitor it joins ends.  hung: wait() never returns, the process
\* being stopped by SIGSTOP.  raised: the call ends with an exception.

\* LocalMusicPlayer.stop_media, lines 81-88
MusicStopMedia(m, P) ==
    LET h    == m.player_process
        live == PollIsNoneIn(P, h)
    IN [music |-> MuClear(m, live),
        proc  |-> IF live THEN [Terminate(P, h) EXCEPT ![h].st = "reaped"]
                  ELSE Reap(P, h),
        hung  |-> live /\ Terminate(P, h)[h].st = "paused"]

\* LocalMediaPlayer.stop_media(), lines 383-394, called by thread t; rc is
\* the exit status its poll() finds if the process has exited uncollected
MediaStopMedia(m, P, owner, T, t, rc) ==
    LET h    == m.player_process
        live == PollIsNoneIn(P, h)
        m1   == SmClearMedia(PolledIn(P, m, rc), live)
        k    == m.mpv_event_thread
    IN [media  |-> m1,
        proc   |-> IF live THEN [Terminate(P, h) EXCEPT ![h].st = "reaped"]
                   ELSE Reap(P, h),
        sock   |-> SmRemoveSocket(owner, m, TRUE),
        thr    |-> IF k # NoProc /\ T[k].pc \notin ({"none"} \cup ExitPcs) /\ k # t
                   THEN Moved(T, k, "exit") ELSE T,
        hung   |-> live /\ Terminate(P, h)[h].st = "paused",
        raised |-> SmJoinOutcome(m1, t) = "fault"]

\* RadioPlayer.stop_station, lines 246-248
RadioStopStation(r, P) ==
    [radio |-> StopStationRadio(r), proc |-> StopStationProc(r, P)]

\* =============================================================== claims
\* monitor k ends here its handling of an idle event, and nothing else has
\* touched the session since the event: the cursor is the one it saw and k
\* is still the session's monitor
EndsHandling(k) ==
    /\ thr[k].pc \in HandlingPcs
    /\ thr'[k].pc \in ExitPcs
    /\ media.mpv_event_thread = k
    /\ media.current_media_index = thr[k].sigidx

\* the session plays file f: its handle is a live process playing f
Plays(m, P, f) ==
    /\ m.player_process # NoProc
    /\ P[m.player_process].st \in {"starting", "running"}
    /\ P[m.player_process].track = f

\* C1: every idle event received while a track plays moves the cursor on by
\* exactly one and starts playlist[cursor]; at the last entry it leaves the
\* cursor where it is, with the player screen and no process
C1_IdleAdvancesByOne ==
    [][\A k \in Tids :
         EndsHandling(k) =>
           IF thr[k].sigidx + 1 < Len(media.playlist)
           THEN /\ media'.current_media_index = thr[k].sigidx + 1
                /\ Plays(media', proc', media.playlist[thr[k].sigidx + 2])
           ELSE /\ media'.current_media_index = thr[k].sigidx
                /\ media'.current_view = "player"
                /\ media'.player_process = NoProc]_vars

\* C2: with the playlist <<11, 12>> started at 11, the handling of the first
\* idle event ends with the process of 11 gone, a process playing 12 and the
\* cursor at 1; the handling of the second ends with no live process and
\* the cursor still at 1
C2_TwoTrackScenario ==
    [][\A k \in Tids :
         (EndsHandling(k) /\ media.playlist = <<11, 12>>) =>
           /\ \A p \in Pids : proc'[p].track = 11 => ~(proc'[p].st \in {"starting", "running"})
           /\ media'.current_media_index = 1
           /\ thr[k].sigidx = 0 => Plays(media', proc', 12)
           /\ thr[k].sigidx = 1 => \A p \in Pids : proc'[p].st \notin {"starting", "running", "terming"}]_vars

\* C3: when a pane has launched a process after another, the earlier one has
\* been terminated and waited for: at most one process of the pane is alive
\* and none is left unreaped
C3_ReplaceReapsPrevious ==
    \A p, q \in Pids :
        (p < q /\ proc[q].st # "none") => proc[p].st = "reaped"

\* C4: in every state the cursor of a local pane is None or an index of the
\* pane's playlist
C4_CursorInPlaylist ==
    /\ media.current_media_index = NoIndex
         \/ (0 <= media.current_media_index
             /\ media.current_media_index < Len(media.playlist))
    /\ music.current_track_index = NoIndex
         \/ (0 <= music.current_track_index
             /\ music.current_track_index < Len(music.playlist))

\* C5: once stop has run in the local panes (cleanup is done), their
\* sessions are idle: no live process is held, the monitor has ended, the
\* channel endpoint is deleted, metadata and cursor are cleared
C5_StopLeavesIdle ==
    thr[0].pc = "exited" =>
        /\ ~PollIsNone(music.player_process)
        /\ ~PollIsNone(media.player_process)
        /\ ~IsAlive(media.mpv_event_thread) /\ ~media.monitoring_mpv
        /\ sockOwner = NoProc
        /\ music.current_track_info = 0 /\ media.current_media_info = 0
        /\ music.current_track_index = NoIndex
        /\ media.current_media_index = NoIndex

\* C6: stop is idempotent in each pane: whatever state the session is in
\* when the main loop could call it, a stop call that returns leaves a state
\* in which a second call changes nothing and raises nothing
C6_StopIdempotent ==
    thr[0].pc = "getch" =>
        /\ LET once == MusicStopMedia(music, proc)
           IN ~once.hung =>
                MusicStopMedia(once.music, once.proc)
                   = [once EXCEPT !.hung = FALSE]
        /\ \A rc1, rc2 \in ExitCodes :
             LET once == MediaStopMedia(media, proc, sockOwner, thr, 0, rc1)
                 twice == MediaStopMedia(once.media, once.proc, once.sock,
                                         once.thr, 0, rc2)
             IN ~once.hung => (twice = [once EXCEPT !.raised = FALSE])
        /\ LET once == RadioStopStation(radio, proc)
           IN RadioStopStation(once.radio, once.proc) = once

\* C6's cases: a stop that has something to stop in the local-media pane (a
\* live process with its endpoint and a live monitor), in the local-music
\* pane and in the radio pane
C6_Witness ==
    /\ thr[0].pc = "getch"
    /\ \/ /\ PollIsNone(media.player_process)
          /\ IsAlive(media.mpv_event_thread)
          /\ sockOwner = media.player_process
          /\ media.current_media_info # 0
       \/ /\ PollIsNone(music.player_process) /\ music.current_track_index = 1
       \/ PollIsNone(radio.player_process)

\* C7: a received line that is no event message never ends the monitor: after
\* any received chunk of lines the monitor reads on, or handles the idle
\* event it found
C7_UnparsableLineSkipped ==
    [][\A k \in Tids :
         thr[k].pc = "recv" => thr'[k].pc \in {"recv", "read", "sm_poll"}]_vars

\* check_playback_status finishes here having read the exit code rc
CpsReads(rc) == thr[0].pc = "cps_rc" /\ thr'[0].return_code = rc

\* C8: a monitor whose connection attempts time out ends without signalling
\* (it touches neither the session nor a process, and stays ended), and a
\* process found exited with code 0 is handled as a stop: the cursor stays
\* and no process is launched
C8_NoConnectionNoAdvance ==
    [][/\ \A k \in Tids :
            /\ thr[k].pc = "exit_noconn" => thr'[k].pc = "exit_noconn"
            /\ (thr[k].pc = "connect" /\ thr'[k].pc = "exit_noconn")
                 => (media' = media /\ proc' = proc)
       /\ CpsReads("0") =>
            /\ media'.current_media_index = media.current_media_index
            /\ media'.player_process = NoProc
            /\ proc' = proc]_vars

\* C8's case: the session's monitor gave up connecting, and the exit of the
\* process with code 0 has just been handled
C8_Witness ==
    /\ thr[0].return_code = "0"
    /\ media.mpv_event_thread # NoProc
    /\ thr[media.mpv_event_thread].pc = "exit_noconn"
    /\ media.current_media_index = 0
    /\ Len(media.playlist) = 2

\* C9 as stated: a process found exited with a non-zero code leaves the
\* session without process and start time, and the pane on the explorer
C9_NonZeroExitToExplorer ==
    [][CpsReads("nonzero") =>
         /\ media'.player_process = NoProc
         /\ media'.playback_start_time = "None"
         /\ media'.current_view = "explorer"]_vars

\* C9 amended: a process found exited with a non-zero code leaves the
\* session without process and start time, and the pane on the player screen
C9_NonZeroExitToPlayer ==
    [][CpsReads("nonzero") =>
         /\ media'.player_process = NoProc
         /\ media'.playback_start_time = "None"
         /\ media'.current_view = "player"]_vars

\* C9's case: the pane was on the explorer when the exit with a non-zero
\* code was handled
C9_Witness ==
    /\ thr[0].return_code = "nonzero"
    /\ media.current_view = "player"
    /\ media.player_process = NoProc

\* C10: the handling of an idle event for the last playlist entry ends with
\* the player screen and the metadata of that entry still in place
C10_LastTrackKeepsMetadata ==
    [][\A k \in Tids :
         (EndsHandling(k) /\ thr[k].sigidx + 1 = Len(media.playlist)) =>
           /\ media'.current_view = "player"
           /\ media'.current_media_info = media.playlist[thr[k].sigidx + 1]]_vars


\* C11: pausing a local-music track keeps the elapsed time shown, the elapsed
\* time does not change while the track stays paused, resuming leaves it at the
\* value it had when paused, and it advances with the clock while playing
SameTrack == music.player_process # NoProc
             /\ music'.player_process = music.player_process
C11_PauseKeepsElapsed ==
    [][SameTrack =>
        /\ (music.player_paused \/ music'.player_paused)
               => Elapsed(music', now') = Elapsed(music, now)
        /\ (~music.player_paused /\ ~music'.player_paused)
               => Elapsed(music', now') = Elapsed(music, now) + (now' - now)]_vars
\* a track launched once, resumed after a pause that lasted some time
C11_Witness ==
    /\ Cardinality(Launched) = 1
    /\ PollIsNone(music.player_process) /\ ~music.player_paused
    /\ music.pause_time # NoTime
    /\ music.playback_start_time > music.pause_time
    /\ now > music.playback_start_time

\* C12: in tiled layout a click on quadrant k gives monocle layout with pane k
\* active, its selection index 0 and its screen at its entry view, whatever
\* the pane's screen and selection were
C12_ClickEntersPane ==
    [][\A k \in Quadrants :
         (~monocle_mode /\ HandleMouseQuadrant(k)) =>
            /\ monocle_mode' /\ active_window' = k
            /\ ViewIn(music', media', spotify', radio', k) = EntryView(k)
            /\ SelectionIn(music', media', spotify', radio', k) = 0]_vars
\* the local-music pane back on its explorer while its track still plays:
\* it was clicked in tiled layout while on its player screen
C12_Witness ==
    /\ monocle_mode /\ active_window = 0
    /\ music.current_view = "explorer" /\ PollIsNone(music.player_process)

\* C13: a step from monocle to tiled layout is taken only with the active
\* pane on its 'dashboard' screen
C13_TiledOnlyFromDashboard ==
    [][(monocle_mode /\ ~monocle_mode') =>
          ViewIn(music', media', spotify', radio', active_window) = "dashboard"]_vars

\* the keys a pane's handler reports as handled, and among them the Backspace
\* that takes a pane to 'dashboard'
PaneHandled ==
    \/ MusicEnterDashboard \/ MusicKeyDown \/ MusicKeyUp \/ MusicEnterDir
    \/ MusicEnterFile \/ MusicBackspaceExplorer \/ MusicBackspacePlayer
    \/ MediaEnterDashboard \/ MediaKeyDown \/ MediaKeyUp \/ MediaEnterDir
    \/ MediaBackspaceExplorer
    \/ SpotifyKeyDown \/ SpotifyKeyUp \/ SpotifyBackspaceExplorer
    \/ RadioSearch \/ RadioKeyDown \/ RadioKeyUp \/ RadioBackspaceStations
    \/ RadioBackspace
PaneHandledBackspace ==
    \/ MusicBackspaceExplorer \/ MediaBackspaceExplorer
    \/ SpotifyBackspaceExplorer \/ RadioBackspace

\* C14: a key the active pane handled changes neither the layout nor the
\* active pane in the same step
C14_HandledKeyKeepsLayout ==
    [][PaneHandled => UNCHANGED <<monocle_mode, active_window>>]_vars
\* C14, amended: a key the active pane handled never changes the active pane
\* or ends the loop, and changes the layout only when it is Backspace and the
\* pane's screen after handling it is 'dashboard'; the layout is then tiled
C14_HandledKeyOnlyBackspaceToTiled ==
    [][PaneHandled =>
          /\ active_window' = active_window
          /\ thr'[0].pc \in {"getch", "check"}
          /\ monocle_mode' # monocle_mode =>
                /\ PaneHandledBackspace
                /\ ~monocle_mode'
                /\ ViewIn(music', media', spotify', radio', active_window)
                      = "dashboard"]_vars
\* the Spotify pane's Backspace on its explorer has given the layout back
C14_Witness ==
    /\ ~monocle_mode /\ active_window = 2
    /\ spotify.current_view = "dashboard" /\ thr[0].pc = "getch"

C17_MonocleKeyKeepsPanes ==
    [][(~monocle_mode /\ KeyM) =>
          /\ monocle_mode'
          /\ UNCHANGED <<active_window, music, media, radio, spotify, proc,
                         sockOwner>>]_vars
\* 'm' pressed in tiled layout with the Spotify pane left on 'dashboard'
C17_Witness ==
    /\ thr[0].pc = "m_returned" /\ monocle_mode /\ active_window = 2
    /\ spotify.current_view = "dashboard"

\* C18: when the player cannot be spawned for a selected file, the pane has no
\* new process and no monitor, does not enter the player screen, and the
\* application keeps running
C18_SpawnFailureKeepsRunning ==
    [][(MediaSpawnFails \/ MusicSpawnFails) =>
          /\ thr'[0].pc # "crashed"
          /\ Launched' = Launched /\ Started' = Started
          /\ music'.current_view # "player" /\ media'.current_view # "player"]_vars

\* C19: when metadata extraction fails for the selected local-music track,
\* the player process is running, the start time is recorded, the pane is on
\* its player screen and the application keeps running
C19_MetadataFailureStillPlays ==
    [][MusicEnterFileUnreadable =>
          /\ thr'[0].pc # "crashed"
          /\ PollIsNoneIn(proc', music'.player_process)
          /\ music'.playback_start_time # NoTime
          /\ music'.current_view = "player"]_vars

\* C20: when the radio pane's station search fails, the pane is back on the
\* screen it was on before the search and the main loop keeps running
C20_SearchFailureFallsBack ==
    [][(RadioSearch /\ radio'.stations = <<>>) =>
          /\ radio'.current_view = radio.current_view
          /\ thr'[0].pc # "crashed"]_vars

\* C21: Enter on a file f of a local explorer listing makes the playlist the
\* files of that listing in listing order, the directories left out, and the
\* cursor the position of f in it
IsFile(e) == ~IsDir(e)
C21_PlaylistFromListing ==
    [][/\ MusicEnterFile =>
             /\ music'.playlist = SelectSeq(music.file_list, IsFile)
             /\ music'.current_track_index \in 0..(Len(music'.playlist) - 1)
             /\ music'.playlist[music'.current_track_index + 1]
                   = SelectedItem(music)
       /\ MediaEnterIndex =>
             /\ thr[0].selected_item = SelectedItem(media)
             /\ media'.playlist = SelectSeq(media.file_list, IsFile)
             /\ media'.current_media_index \in 0..(Len(media'.playlist) - 1)
             /\ media'.playlist[media'.current_media_index + 1]
                   = SelectedItem(media)]_vars
\* the file of the root listing played: the playlist leaves the directory out
C21_Witness ==
    /\ media.current_view = "player" /\ media.file_list = <<1, 20>>
    /\ media.playlist = <<20>> /\ media.current_media_index = 0

\* C22: the persisted favorites array, loaded, is the in-memory favorites
\* list in every state, and after every add-favorite and delete-favorite
\* action the file holds the whole list
C22_FavoritesPersisted ==
    [][/\ LoadFavorites(channels') = radio'.favorites
       /\ (RadioAddFavorite \/ RadioDeleteFavorite) /\ radio'.favorites # <<>>
             => channels'.exists
                /\ Len(channels'.text) = Len(radio'.favorites)]_vars
\* two favorites were added and the first of them deleted
C22_Witness ==
    /\ radio.favorites = <<2>> /\ radio.current_view = "favorites"
    /\ channels.exists /\ Len(channels.text) = 1

\* C23: the local-media pane's session has at most one live player process
\* and at most one running monitor thread at any moment
C23_OneProcessOneMonitor ==
    (music = MusicInit /\ radio = RadioInit) =>
        /\ Cardinality({p \in Pids : Alive(p)}) <= 1
        /\ Cardinality({k \in Tids : IsAlive(k)}) <= 1

\* C24: a monitor starts to react to a track-finished signal only while the
\* session still plays the process that sent it; a session that has been
\* stopped or replaced in the meantime is left alone
C24_ReactsOnlyWhilePlaying ==
    [][\A k \in Tids :
         (thr[k].pc = "sm_poll" /\ thr'[k].pc # "sm_poll") =>
             media.player_process = thr[k].client]_vars

\* C25: a stop by the main loop terminates the process only after the
\* monitor's flag is down and the monitor has ended, and the IPC socket is
\* removed only when no monitor of the session is running
C25_StopOrder ==
    [][/\ (thr[0].pc = "sm_poll" /\ thr'[0].pc = "sm_wait") =>
             ~media.monitoring_mpv /\ ~IsAlive(media.mpv_event_thread)
       /\ (sockOwner # NoProc /\ sockOwner' = NoProc) =>
             ~IsAlive(media.mpv_event_thread)]_vars

\* C26: once the flag is down, a monitor that leaves its connect phase or
\* its read loop leaves it to end
C26_FlagDownMonitorExits ==
    [][\A k \in Tids :
         (~media.monitoring_mpv /\ thr[k].pc \in {"connect", "read"}
            /\ thr'[k].pc # thr[k].pc) => thr'[k].pc \in ExitPcs]_vars

\* C27: a monitor calls the playback-end handler only for an idle event it
\* has just received, and at most once: from the call on it never reads
\* again, it ends, and it stays ended
C27_IdleHandledOnce ==
    [][\A k \in Tids :
         /\ (thr[k].pc \notin HandlingPcs /\ thr'[k].pc \in HandlingPcs) =>
               /\ thr[k].pc = "recv" /\ thr'[k].pc = "sm_poll"
               /\ \E chunk \in Chunks :
                     ScanLines(chunk) = "idle" /\ MonRecv(k, chunk)
         /\ \A chunk \in Chunks :
               (MonRecv(k, chunk) /\ \E i \in DOMAIN chunk : chunk[i] = "idle")
                   => thr'[k].pc = "sm_poll"
         /\ thr[k].pc \in HandlingPcs =>
               thr'[k].pc \in HandlingPcs \cup ExitPcs
         /\ thr[k].pc \in ExitPcs => thr'[k].pc = thr[k].pc]_vars

\* ------------------------------------------------------- scheduling
\* main_loop (main.py lines 29 and 191-208) waits at most 100 ms for a key and then
\* goes round again, so a status check that stays possible is made, and a
\* check begun is carried through; every started monitor thread gets to run
MonStep(k) ==
    \/ MonConnect(k) \/ MonConnectTimeout(k) \/ MonLoop(k)
    \/ MonRecvTimeout(k) \/ SmPoll(k) \/ SmWait(k) \/ SmJoin(k)
    \/ HpeCheck(k) \/ HpeNext(k)

LiveSpec ==
    /\ Init /\ [][Next]_vars
    /\ WF_vars(CheckStatus) /\ WF_vars(CpsJoin) /\ WF_vars(CpsFinish)
    /\ \A k \in Tids : WF_vars(MonStep(k))

\* the player process of the session is gone and no monitor has signalled
\* the end of a track
ExitedUnsignalled ==
    /\ media.player_process # NoProc /\ ~Alive(media.player_process)
    /\ \A k \in Tids : thr[k].pc \notin HandlingPcs
MediaIdle ==
    /\ media.player_process = NoProc /\ media.playback_start_time = "None"
    /\ ~media.monitoring_mpv /\ ~IsAlive(media.mpv_event_thread)

\* C28: when the local-media player process exits with no track-finished
\* signal before it, then, unless the main loop ends, the session becomes
\* Idle (handle and start time cleared, flag down, monitor ended), in every
\* layout and with any pane active
MainLooping == thr[0].pc \in {"getch", "check", "cps_join", "cps_rc"}
C28_ExitObserved == ExitedUnsignalled ~> (MediaIdle \/ ~MainLooping)

\* what the local-media pane shows: screen, selection, current track, metadata
MediaPaneState(m) ==
    <<m.current_view, m.selected_index, m.file_list, m.current_media_index,
      m.current_media_info>>
\* a step taken by a monitor thread
BackgroundStep ==
    \E k \in Tids : MonStep(k) \/ \E chunk \in Chunks : MonRecv(k, chunk)

\* C29: only the main loop thread writes the layout, the active pane and a
\* pane's screen, selection, current track and metadata; a step of a
\* background thread leaves all of them as they are
C29_OnlyMainWritesUi ==
    [][BackgroundStep =>
          /\ monocle_mode' = monocle_mode /\ active_window' = active_window
          /\ MediaPaneState(media') = MediaPaneState(media)
          /\ music' = music /\ radio' = radio /\ spotify' = spotify]_vars

\* C30: nothing that happens in a monitor thread surfaces as an unhandled
\* fault in the main loop: the status check, which reads what the monitors
\* leave behind, never ends the main loop with an exception, and a monitor
\* that meets a fault only ends
C30_MonitorFaultsContained ==
    [][/\ thr[0].pc \in {"check", "cps_join", "cps_rc"} => thr'[0].pc # "crashed"
       /\ BackgroundStep => thr'[0] = thr[0]]_vars

\* the positions of the main thread inside its loop
LoopPcs == {"getch", "check", "cps_join", "cps_rc"}

\* C31: the main loop ends only on a quit key that the active pane left
\* unhandled; after every other key handle_keypress reports 'continue' and
\* the loop goes on polling
C31_OnlyQuitEndsLoop ==
    [][(thr[0].pc = "getch" /\ thr'[0].pc \notin LoopPcs) => KeyQuit]_vars

\* a process that runs and has not been sent SIGTERM
Unterminated(p) == proc[p].st \in {"starting", "running", "paused"}

\* C32: when the main loop has ended, cleanup has run: every player process
\* the application started has been terminated and no monitor thread runs
C32_EndedMeansCleanedUp ==
    MainEnded => /\ \A p \in Pids : ~Unterminated(p)
                 /\ \A k \in Tids : ~IsAlive(k)

\* C33: stop_media called by a monitor through handle_playback_end runs to
\* its end: it never joins the thread it runs on, so the monitor goes on to
\* the advance / no-more-tracks step instead of ending part-way
C33_StopCompletesOnMonitor ==
    [][\A k \in Tids :
         /\ thr[k].pc = "sm_join" => SmJoinOutcome(media, k) # "fault"
         /\ thr[k].pc \in {"sm_poll", "sm_wait", "sm_join"} =>
               thr'[k].pc \notin ExitPcs]_vars

\* C34: while check_playback_status is between its liveness test and its
\* exit-code read, no other thread clears the process handle, and the read
\* never faults
C34_CheckNeverReadsClearedHandle ==
    [][/\ (thr[0].pc \in {"cps_join", "cps_rc"} /\ thr'[0] = thr[0]) =>
             media'.player_process = media.player_process
       /\ thr[0].pc = "cps_rc" => thr'[0].pc # "crashed"]_vars

\* C35: in the local-music pane a stop_media begun while the process is
\* suspended returns: its wait() is never on a process that is still
\* suspended; and a track started while the session is paused does not leave
\* the previous process suspended
C35_PausedStopReturns ==
    [][/\ thr'[0].pc = "mu_wait" => proc'[music'.player_process].st # "paused"
       /\ \A p \in Pids :
             (music.player_process = p /\ music'.player_process \notin {p, NoProc})
                 => proc'[p].st # "paused"]_vars

\* --------------------------------------------- navigation in main_loop
\* handle_keypress and handle_mouse as main_loop calls them (main.py lines
\* 191-208): after a call that returned True there is no further call.  The
\* steps that need monocle mode with a pane on 'dashboard' (the global j and
\* k of lines 173-181, Enter on a pane's dashboard) are stated by C36 to be
\* never enabled here
LoopNavNext ==
    \/ KeyM \/ KeyT
    \/ \E w \in Quadrants : HandleMouseQuadrant(w)
    \/ MusicKeyDown \/ MusicKeyUp \/ MusicEnterDir
    \/ MusicEnterFile \/ MusicBackspaceExplorer \/ MusicBackspacePlayer
    \/ MediaKeyDown \/ MediaKeyUp \/ MediaEnterDir
    \/ MediaBackspaceExplorer \/ CheckStatus
    \/ SpotifyKeyDown \/ SpotifyKeyUp \/ SpotifyBackspaceExplorer
    \/ RadioSearch \/ RadioKeyDown \/ RadioKeyUp \/ RadioBackspaceStations
    \/ RadioBackspace

LoopNavSpec == Init /\ [][LoopNavNext]_vars

\* C36: while the main loop runs, monocle layout implies that the active
\* pane does not show 'dashboard'; hence the global j/k pane switch and Enter
\* on a pane's dashboard are never possible
C36_MonocleNeverOnDashboard ==
    /\ (thr[0].pc \in LoopPcs /\ monocle_mode) => ActiveView # "dashboard"
    /\ ~ENABLED KeyJ /\ ~ENABLED KeyK
    /\ ~ENABLED MusicEnterDashboard /\ ~ENABLED MediaEnterDashboard
\* a pane that went back to its dashboard, which made the layout tiled, has
\* been entered again by a click
C36_Witness ==
    /\ monocle_mode /\ thr[0].pc \in LoopPcs /\ active_window = 2
    /\ spotify.current_view = "explorer"
    /\ media.current_view = "dashboard" /\ radio.current_view = "dashboard"

\* i is an index of list l
ValidIndex(i, l) == i \in 0..(Len(l) - 1)

\* C37: whenever a key is dispatched to a list screen of the active pane, the
\* selection index is a valid index of the list that screen shows
C37_SelectionInRange ==
    (monocle_mode /\ thr[0].pc = "getch") =>
        /\ (active_window = 0 /\ music.current_view = "explorer") =>
               ValidIndex(music.selected_index, music.file_list)
        /\ (active_window = 1 /\ media.current_view = "explorer") =>
               ValidIndex(media.selected_index, media.file_list)
        /\ (active_window = 3 /\ radio.current_view = "stations") =>
               ValidIndex(radio.selected_index, radio.stations)
        /\ (active_window = 3 /\ radio.current_view = "favorites") =>
               ValidIndex(radio.selected_index, radio.favorites)

\* ------------------------------------------- several panes in one run
\* the local-music and local-media panes used one after the other: clicks on
\* any quadrant, 't' back to the tiled layout, the two panes' keys, the
\* status check, the monitors and the player processes
ClickNext ==
    \/ KeyT
    \/ \E w \in Quadrants : HandleMouseQuadrant(w)
    \/ MusicEnterDir \/ MusicEnterFile \/ MusicTogglePlayback
    \/ MusicBackspacePlayer
    \/ MediaEnterDir \/ MediaEnterFile \/ MediaEnterIndex
    \/ MediaBackspacePlayer
    \/ CheckStatus \/ CpsJoin \/ CpsFinish
    \/ \E k \in Tids :
          \/ MonConnect(k) \/ MonConnectTimeout(k) \/ MonLoop(k)
          \/ \E chunk \in Chunks : MonRecv(k, chunk)
          \/ MonRecvTimeout(k) \/ SmPoll(k) \/ SmWait(k) \/ SmJoin(k)
          \/ HpeCheck(k) \/ HpeNext(k)
    \/ \E p \in Pids : ProcBind(p) \/ ProcExit(p)

ClickSpec == Init /\ [][ClickNext]_vars

\* a step of the main loop that is not the quit
QuietStep ==
    ~BackgroundStep /\ thr[0].pc \in LoopPcs /\ thr'[0].pc \in LoopPcs
\* the step does nothing to process p itself; p may start up or end
Undisturbed(p) ==
    p = NoProc \/ proc'[p] = proc[p] \/ ProcBind(p) \/ ProcExit(p)

\* C38: a click that makes another pane active changes only the layout, the
\* active pane and the new pane's screen and selection; and while a pane is
\* not the active one the main loop leaves its session and its player
\* process alone, so that its track keeps playing
C38_ClickKeepsOtherPanes ==
    [][/\ \A w \in Quadrants :
             (HandleMouseQuadrant(w) /\ w # active_window) =>
                /\ proc' = proc /\ sockOwner' = sockOwner
                /\ \A k \in Tids : thr'[k] = thr[k]
                /\ music' = IF w = 0
                            THEN [music EXCEPT !.current_view = music'.current_view,
                                               !.selected_index = music'.selected_index]
                            ELSE music
                /\ media' = IF w = 1
                            THEN [media EXCEPT !.current_view = media'.current_view,
                                               !.selected_index = media'.selected_index]
                            ELSE media
                /\ radio' = IF w = 3
                            THEN [radio EXCEPT !.current_view = radio'.current_view,
                                               !.selected_index = radio'.selected_index]
                            ELSE radio
                /\ w # 2 => spotify' = spotify
       /\ (QuietStep /\ active_window # 0 /\ active_window' # 0) =>
             music' = music /\ Undisturbed(music.player_process)
       /\ (QuietStep /\ active_window # 1 /\ active_window' # 1) =>
             media' = media /\ Undisturbed(media.player_process)]_vars
\* the local-music pane and the local-media pane each own a live process,
\* the second started after a click away from the first
C38_Witness ==
    /\ monocle_mode /\ active_window = 1
    /\ music.player_process # NoProc /\ proc[music.player_process].st = "running"
    /\ media.player_process # NoProc /\ proc[media.player_process].st = "running"

\* C39: in the local-music pane next at the last index goes to 0 and previous
\* at 0 goes to the last index; the cursor stays an index of the playlist and
\* the process the step starts plays playlist[cursor]
C39_NextPreviousWrap ==
    [][\A d \in {1, -1} :
         MusicStep(d) =>
            LET n == Len(music.playlist)
                c == music.current_track_index
                e == music'.current_track_index
            IN /\ music'.playlist = music.playlist
               /\ d = 1  => e = (IF c = n - 1 THEN 0 ELSE c + 1)
               /\ d = -1 => e = (IF c = 0 THEN n - 1 ELSE c - 1)
               /\ ValidIndex(e, music'.playlist)
               /\ music'.player_process \notin {NoProc, music.player_process}
               /\ proc'[music'.player_process].st = "running"
               /\ proc'[music'.player_process].track = music'.playlist[e + 1]]_vars
\* the last track was started from the explorer and next or previous went
\* round to the other end
C39_Witness ==
    /\ music.current_view = "player" /\ music.player_process = 2
    /\ proc[1].track = music.playlist[Len(music.playlist)]
    /\ music.current_track_index = 0 /\ proc[2].track = music.playlist[1]

\* --------------------------------------------------------------- volume
\* what amixer reports for the Master control (get_volume, lines 256-266)
VolumeReadings == {0, 3, DefaultVolume, 98, MaxVolume}
SpotifyVolumeStep == 10
RadioVolumeSteps  == {5, -5}

Min(a, b) == IF a < b THEN a ELSE b
Max(a, b) == IF a > b THEN a ELSE b

\* increase_volume without its upper limit
IncreaseVolumeUnbounded(v) == v + SpotifyVolumeStep
\* increase_volume, line 423, and decrease_volume, line 445
IncreaseVolume(v) == Min(MaxVolume, v + SpotifyVolumeStep)
DecreaseVolume(v) == Max(0, v - SpotifyVolumeStep)
\* change_volume, line 251
ChangeVolume(v, delta) == Max(0, Min(MaxVolume, v + delta))

\* RadioPlayer.__init__, line 17: the volume read from the system
VolumeInit ==
    /\ monocle_mode = FALSE
    /\ active_window = 0
    /\ music = MusicInit
    /\ media = MediaInit
    /\ \E v \in VolumeReadings : radio = [RadioInit EXCEPT !.volume = v]
    /\ spotify = SpotifyInit
    /\ now = Epoch
    /\ channels = NoFile
    /\ proc = [p \in Pids |-> ProcInit]
    /\ sockOwner = NoProc
    /\ thr = [t \in Threads |-> IF t = 0 THEN [ThreadInit EXCEPT !.pc = "getch"]
                                 ELSE ThreadInit]

\* handle_explorer_keypress, 'c' (spotify_player.py lines 531-534) when the
\* poller has published a current track
SpotifyShowPlayer ==
    /\ SpotifyKeys /\ spotify.current_view = "explorer"
    /\ spotify' = [spotify EXCEPT !.current_view = "player"]
    /\ UNCHANGED <<monocle_mode, active_window, music, media, radio, proc,
                   sockOwner, thr, now, channels>>

\* handle_player_keypress '+' and '-' (lines 606-611), increase_volume and
\* decrease_volume (lines 421-463): the new value is stored before the Web
\* API is called; a refusal of the device is reported, any other error of
\* the call is raised again (lines 438-440)
SpotifyVolume(d) ==
    /\ SpotifyKeys /\ spotify.current_view = "player"
    /\ spotify' = [spotify EXCEPT !.volume = IF d = 1 THEN IncreaseVolume(@)
                                             ELSE DecreaseVolume(@)]
    /\ \E res \in {"ok", "disallowed", "error"} :
          Goto(0, IF res = "error" THEN "crashed" ELSE "getch")
    /\ UNCHANGED <<monocle_mode, active_window, music, media, radio, proc,
                   sockOwner, now, channels>>

\* handle_radio_keypress '+' and '-' (radio_player.py lines 141-146) with
\* change_volume (lines 250-254)
RadioChangeVolume(delta) ==
    /\ RadioKeys /\ radio.current_view = "radio"
    /\ radio' = [radio EXCEPT !.volume = ChangeVolume(@, delta)]
    /\ UNCHANGED <<monocle_mode, active_window, music, media, spotify, proc,
                   sockOwner, thr, now, channels>>

\* update_volume, lines 269-272: the daemon thread stores what the system
\* reports, every 5 seconds
RadioUpdateVolume ==
    /\ Running
    /\ \E v \in VolumeReadings : radio' = [radio EXCEPT !.volume = v]
    /\ UNCHANGED <<monocle_mode, active_window, music, media, spotify, proc,
                   sockOwner, thr, now, channels>>

VolumeNext ==
    \/ KeyT
    \/ \E w \in Quadrants : HandleMouseQuadrant(w)
    \/ CheckStatus
    \/ SpotifyShowPlayer
    \/ \E d \in {1, -1} : SpotifyVolume(d)
    \/ \E delta \in RadioVolumeSteps : RadioChangeVolume(delta)
    \/ RadioUpdateVolume

VolumeSpec == VolumeInit /\ [][VolumeNext]_vars

\* C40: the Spotify pane's volume is a multiple of 10 within 0..100, the
\* radio pane's volume is within 0..100 after change_volume, and volume-up at
\* 100 and volume-down at 0 change nothing
C40_VolumeInRange ==
    [][/\ spotify'.volume \in {10 * i : i \in 0..10}
       /\ \A d \in {1, -1} :
             SpotifyVolume(d) =>
                /\ (d = 1 /\ spotify.volume = 100) => spotify'.volume = 100
                /\ (d = -1 /\ spotify.volume = 0) => spotify'.volume = 0
                /\ (d = 1 /\ spotify.volume < 100) => spotify'.volume = spotify.volume + 10
                /\ (d = -1 /\ spotify.volume > 0) => spotify'.volume = spotify.volume - 10
       /\ \A delta \in RadioVolumeSteps :
             RadioChangeVolume(delta) =>
                /\ radio'.volume \in 0..100
                /\ (delta > 0 /\ radio.volume = 100) => radio'.volume = 100
                /\ (delta < 0 /\ radio.volume = 0) => radio'.volume = 0]_vars
\* the Spotify volume at its upper limit, reached by five steps up from 50, and
\* the radio volume cut off at 100 from a reading of 98
C40_Witness ==
    /\ spotify.volume = 100 /\ spotify.current_view = "player"
    /\ radio.volume = 100 /\ radio.current_view = "radio"
====
